---- MODULE Spec2Model ----
(***************************************************************************)
(* Model of dexter's step trace (dex/dextIR/DextIR.py) and of its debugger *)
(* registry (dex/debugger/Debuggers.py).                                   *)
(*                                                                         *)
(* TraceSpec    : a DextIR object under new_step / clear_steps.            *)
(* RegistrySpec : the process-wide discovery cache under calls of          *)
(*                _get_potential_debuggers / Debuggers.potential_debuggers *)
(***************************************************************************)
EXTENDS Integers, Sequences, FiniteSets, TLC

VARIABLES
    \* ---- DextIR fields (DextIR.__init__) ----
    dexter_version, executable_path, source_paths, builder, debugger,
    commands, steps,
    \* ---- the trace's caller: the last operation and the one before it, and
    \* ---- the text the last operation returned, if it was str() ----
    last_op, prev_op, rendered,
    \* ---- registry: function attribute, class attribute, the scanned tree ----
    cached, cls_potential_debuggers, candidates,
    \* ---- registry: the scans started, how the scan ended, the calls made ----
    scans, scan_raised, calls,
    \* ---- registry: how constructing the backend of each key ends, and the
    \* ---- outcome of the last load or list ----
    construction, last_result,
    \* ---- get_debugger_steps: the parent's position, the exception that
    \* ---- ended the run, whether the parser reported a failure, the entry
    \* ---- point found, the three temporary files, the child process, the
    \* ---- spawns and read-backs so far, the value returned ----
    pc, raised, parse_error, dexter_py, json_file, pickle_file, tmp_file,
    child, spawned, readbacks, result

trace_vars == <<dexter_version, executable_path, source_paths, builder,
                debugger, commands, steps, last_op, prev_op, rendered>>
registry_vars == <<cached, cls_potential_debuggers, candidates, scans,
                   scan_raised, calls>>
listing_vars == <<construction, last_result>>
coordinator_vars == <<pc, raised, parse_error, dexter_py, json_file,
                      pickle_file, tmp_file, child, spawned, readbacks,
                      result>>
vars == <<trace_vars, registry_vars, listing_vars, coordinator_vars>>

\* Python's None; also "attribute not set".
None == "None"

--------------------------------------------------------------------------
\* Bounds of the model.
MaxSteps == 3
MaxCandidates == 3
MaxCalls == 3
MaxRenderSteps == 5
MaxChildSteps == 2

--------------------------------------------------------------------------
(***************************************************************************)
(* Step trace                                                              *)
(***************************************************************************)

StepKinds == {"FUNC", "FUNC_EXTERNAL", "FUNC_UNKNOWN", "SAME", "FORWARD",
              "BACKWARD", "UNKNOWN"}

\* The functions, paths, lines and columns a debugger reports in the model.
\* "file.c" is a source file of the test when source_paths holds it and a
\* file outside the test when it does not.
Functions == {"main", "helper"}
Paths == {"file.c"}
Lines == {10, 11}
Columns == {1, 2}

LocIR == [path : Paths \cup {None}, lineno : Lines, column : Columns]

\* A step as its creator hands it to new_step: step_kind not yet assigned.
StepIR == [current_function : Functions \cup {None},
           current_location : LocIR,
           step_kind : {None}]

\* The values source_paths takes (a list of the test's source files).
SourcePathSets == {{}, {"file.c"}}

\* The values of the commands field: None (the constructor's default) or an
\* ordered mapping from command type to the list of its commands.
NoCommands == [is_none |-> TRUE, groups |-> <<>>]
SomeCommands ==
    [is_none |-> FALSE,
     groups |-> <<[type |-> "DexWatch", list |-> <<"a", "b">>]>>]

\* LocIR.__eq__: identical path, line and column.
LocEq(a, b) ==
    /\ a.path = b.path
    /\ a.lineno = b.lineno
    /\ a.column = b.column

\* LocIR.__lt__: the order over (line, column).
LocLt(a, b) ==
    \/ a.lineno < b.lineno
    \/ a.lineno = b.lineno /\ a.column < b.column

\* LocIR.__gt__: the order over (line, column).
LocGt(a, b) ==
    \/ a.lineno > b.lineno
    \/ a.lineno = b.lineno /\ a.column > b.column

\* Mutant of _step_kind_func: the test for an absent path is missing.
_step_kind_func_no_unknown(sp, step) ==
    IF step.current_location.path \in sp THEN "FUNC" ELSE "FUNC_EXTERNAL"

_step_kind_func(sp, step) ==
    IF step.current_location.path \in sp THEN "FUNC"
    ELSE IF step.current_location.path = None THEN "FUNC_UNKNOWN"
    ELSE "FUNC_EXTERNAL"

\* Mutant of new_step_kind: the previous step is looked at before the
\* step's own function.
new_step_kind_prev_first(sp, stps, step) ==
    IF Len(stps) = 0 THEN _step_kind_func(sp, step)
    ELSE IF step.current_function = None THEN "UNKNOWN"
    ELSE LET prev_step == stps[Len(stps)] IN
         IF prev_step.current_function = None THEN "UNKNOWN"
         ELSE IF prev_step.current_function # step.current_function
              THEN _step_kind_func(sp, step)
         ELSE IF LocEq(prev_step.current_location, step.current_location)
              THEN "SAME"
         ELSE IF LocGt(prev_step.current_location, step.current_location)
              THEN "BACKWARD"
         ELSE IF LocLt(prev_step.current_location, step.current_location)
              THEN "FORWARD"
         ELSE step.step_kind

\* Mutant of new_step_kind: the operands of the two order comparisons are
\* exchanged.
new_step_kind_reversed(sp, stps, step) ==
    IF step.current_function = None THEN "UNKNOWN"
    ELSE IF Len(stps) = 0 THEN _step_kind_func(sp, step)
    ELSE LET prev_step == stps[Len(stps)] IN
         IF prev_step.current_function = None THEN "UNKNOWN"
         ELSE IF prev_step.current_function # step.current_function
              THEN _step_kind_func(sp, step)
         ELSE IF LocEq(prev_step.current_location, step.current_location)
              THEN "SAME"
         ELSE IF LocGt(step.current_location, prev_step.current_location)
              THEN "BACKWARD"
         ELSE IF LocLt(step.current_location, prev_step.current_location)
              THEN "FORWARD"
         ELSE step.step_kind

\* Mutant of new_step_kind: the branch for a changed function is missing.
new_step_kind_no_entry(sp, stps, step) ==
    IF step.current_function = None THEN "UNKNOWN"
    ELSE IF Len(stps) = 0 THEN _step_kind_func(sp, step)
    ELSE LET prev_step == stps[Len(stps)] IN
         IF prev_step.current_function = None THEN "UNKNOWN"
         ELSE IF LocEq(prev_step.current_location, step.current_location)
              THEN "SAME"
         ELSE IF LocGt(prev_step.current_location, step.current_location)
              THEN "BACKWARD"
         ELSE IF LocLt(prev_step.current_location, step.current_location)
              THEN "FORWARD"
         ELSE step.step_kind

\* Mutant of new_step_kind: the branch for a previous step without a
\* function is missing.
new_step_kind_no_prev_none(sp, stps, step) ==
    IF step.current_function = None THEN "UNKNOWN"
    ELSE IF Len(stps) = 0 THEN _step_kind_func(sp, step)
    ELSE LET prev_step == stps[Len(stps)] IN
         IF prev_step.current_function # step.current_function
         THEN _step_kind_func(sp, step)
         ELSE IF LocEq(prev_step.current_location, step.current_location)
              THEN "SAME"
         ELSE IF LocGt(prev_step.current_location, step.current_location)
              THEN "BACKWARD"
         ELSE IF LocLt(prev_step.current_location, step.current_location)
              THEN "FORWARD"
         ELSE step.step_kind

\* Mutant of new_step_kind: the previous step counts as unknown by the kind
\* it was given, not by its function.
new_step_kind_by_prev_kind(sp, stps, step) ==
    IF step.current_function = None THEN "UNKNOWN"
    ELSE IF Len(stps) = 0 THEN _step_kind_func(sp, step)
    ELSE LET prev_step == stps[Len(stps)] IN
         IF prev_step.step_kind = "UNKNOWN" THEN "UNKNOWN"
         ELSE IF prev_step.current_function # step.current_function
              THEN _step_kind_func(sp, step)
         ELSE IF LocEq(prev_step.current_location, step.current_location)
              THEN "SAME"
         ELSE IF LocGt(prev_step.current_location, step.current_location)
              THEN "BACKWARD"
         ELSE IF LocLt(prev_step.current_location, step.current_location)
              THEN "FORWARD"
         ELSE step.step_kind

\* The step_kind new_step leaves on `step` when the trace holds `stps`.
\* The last branch is the fall-through of the if/elif chain: no assignment,
\* the step keeps the step_kind it came with.
new_step_kind(sp, stps, step) ==
    IF step.current_function = None THEN "UNKNOWN"
    ELSE IF Len(stps) = 0 THEN _step_kind_func(sp, step)
    ELSE LET prev_step == stps[Len(stps)] IN
         IF prev_step.current_function = None THEN "UNKNOWN"
         ELSE IF prev_step.current_function # step.current_function
              THEN _step_kind_func(sp, step)
         ELSE IF LocEq(prev_step.current_location, step.current_location)
              THEN "SAME"
         ELSE IF LocGt(prev_step.current_location, step.current_location)
              THEN "BACKWARD"
         ELSE IF LocLt(prev_step.current_location, step.current_location)
              THEN "FORWARD"
         ELSE step.step_kind

\* Mutant of new_step_steps: the previous step is classified again when its
\* successor arrives.
new_step_steps_revisit(sp, stps, step) ==
    LET old == IF Len(stps) = 0 THEN stps
               ELSE [stps EXCEPT ![Len(stps)].step_kind = "SAME"] IN
    Append(old, [step EXCEPT !.step_kind = new_step_kind(sp, stps, step)])

\* self.steps after new_step(step).
new_step_steps(sp, stps, step) ==
    Append(stps, [step EXCEPT !.step_kind = new_step_kind(sp, stps, step)])

\* No text was returned.
NoRender == [begin |-> FALSE, lines |-> <<>>, count |-> 0, plural |-> ""]

\* new_step(step) on a trace of fewer than `bound` steps.
new_step_within(step, bound) ==
    /\ Len(steps) < bound
    /\ steps' = new_step_steps(source_paths, steps, step)
    /\ last_op' = "new_step"
    /\ prev_op' = last_op
    /\ rendered' = NoRender
    /\ UNCHANGED <<dexter_version, executable_path, source_paths, builder,
                   debugger, commands>>

new_step(step) == new_step_within(step, MaxSteps)

\* self.steps after clear_steps().
clear_steps_steps(stps) == <<>>

\* Mutant of clear_steps: the trace is brought back to a bare skeleton, its
\* commands dropped with its steps.
clear_steps_skeleton ==
    /\ steps' = <<>>
    /\ commands' = NoCommands
    /\ last_op' = "clear_steps"
    /\ prev_op' = last_op
    /\ rendered' = NoRender
    /\ UNCHANGED <<dexter_version, executable_path, source_paths, builder,
                   debugger>>

clear_steps ==
    /\ steps' = clear_steps_steps(steps)
    /\ last_op' = "clear_steps"
    /\ prev_op' = last_op
    /\ rendered' = NoRender
    /\ UNCHANGED <<dexter_version, executable_path, source_paths, builder,
                   debugger, commands>>

\* colors = 'rgby'
colors == <<"r", "g", "b", "y">>

\* x % y for the 0-based subscript colors[x % len(colors)].
ColorAt(color_idx) == colors[(color_idx % Len(colors)) + 1]

\* Mutant of str_lines: the colour is picked before color_idx is moved on.
RECURSIVE str_lines_late_increment(_, _, _)
str_lines_late_increment(stps, i, color_idx) ==
    IF i > Len(stps) THEN <<>>
    ELSE LET next_idx == IF stps[i].step_kind
                              \in {"FUNC", "FUNC_EXTERNAL", "FUNC_UNKNOWN"}
                         THEN color_idx + 1 ELSE color_idx IN
         <<[color |-> ColorAt(color_idx), step |-> stps[i]]>>
             \o str_lines_late_increment(stps, i + 1, next_idx)

\* Lines 64-70 from step i on, color_idx being the counter before step i:
\* the '<color>step</>' lines.
RECURSIVE str_lines(_, _, _)
str_lines(stps, i, color_idx) ==
    IF i > Len(stps) THEN <<>>
    ELSE LET next_idx == IF stps[i].step_kind
                              \in {"FUNC", "FUNC_EXTERNAL", "FUNC_UNKNOWN"}
                         THEN color_idx + 1 ELSE color_idx IN
         <<[color |-> ColorAt(next_idx), step |-> stps[i]]>>
             \o str_lines(stps, i + 1, next_idx)

\* DextIR.__str__: '## BEGIN ##', the lines, '## END (n step[s]) ##'.
__str__(stps) ==
    [begin |-> TRUE,
     lines |-> str_lines(stps, 1, 0),
     count |-> Len(stps),
     plural |-> IF Len(stps) = 1 THEN "" ELSE "s"]

\* A caller renders the trace: str(step_collection).
render ==
    /\ rendered' = __str__(steps)
    /\ last_op' = "render"
    /\ prev_op' = last_op
    /\ UNCHANGED <<dexter_version, executable_path, source_paths, builder,
                   debugger, commands, steps>>

\* The steps appended in the traces that are rendered: every function, with
\* and without path, at one place.
RenderStepIR == {s \in StepIR : /\ s.current_location.lineno = 10
                                /\ s.current_location.column = 1}

\* DextIR.__init__: the fields as given, no steps.
DextIR_init ==
    /\ dexter_version = "1.0"
    /\ executable_path = "a.out"
    /\ source_paths \in SourcePathSets
    /\ builder = None
    /\ debugger = None
    /\ commands \in {NoCommands, SomeCommands}
    /\ steps = <<>>
    /\ last_op = "init"
    /\ prev_op = None
    /\ rendered = NoRender

--------------------------------------------------------------------------
(***************************************************************************)
(* Debugger registry                                                       *)
(***************************************************************************)

\* The option names (keys) a backend class may report.
Keys == {"lldb", "vs2015"}

\* The classes inspect.getmembers can find in the scanned modules, by
\* identity.  "LLDB" and "LLDB_2" are two class objects whose __name__ is
\* the same; "OrderedDict" is a class that is no DebuggerBase.
ClassIds == {"DebuggerBase", "LLDB", "LLDB_2", "VisualStudio2015",
             "VisualStudio2017", "OrderedDict"}

\* c.__name__
ClassName(c) == IF c = "LLDB_2" THEN "LLDB" ELSE c

\* issubclass(c, DebuggerBase)
IsDebuggerBase(c) == c # "OrderedDict"

\* c.get_option_name(): a key, or NotImplementedError raised.
OptionName(c) ==
    CASE c = "LLDB" -> "lldb"
      [] c = "LLDB_2" -> "lldb"
      [] c = "VisualStudio2015" -> "vs2015"
      [] c = "VisualStudio2017" -> "vs2015"
      [] OTHER -> "NotImplementedError"

\* What the two nested loops of the scan meet, in scan order: a module that
\* fails to load (with ImportError, or with another error), or a class of a
\* module that loaded.
Candidate == [load : {"ImportError", "Error"}, cls : {None}]
             \cup [load : {"ok"}, cls : ClassIds]

RECURSIVE SeqsUpTo(_, _)
SeqsUpTo(S, n) ==
    IF n = 0 THEN {<<>>}
    ELSE LET shorter == SeqsUpTo(S, n - 1) IN
         shorter \cup {Append(q, x) : q \in {r \in shorter : Len(r) = n - 1},
                                      x \in S}

\* A dict from key to class: None where the key is not in the dict.
EmptyDict == [k \in Keys |-> None]
NoAttr == [set |-> FALSE, map |-> EmptyDict]

\* Lines 66-79 for one class c, the dict being d: the dict afterwards and the
\* exception raised, if any.
register(d, c) ==
    IF ~IsDebuggerBase(c) THEN [map |-> d, raised |-> None]
    ELSE IF OptionName(c) = "NotImplementedError"
         THEN [map |-> d, raised |-> None]
    ELSE LET key == OptionName(c) IN
         IF d[key] # None
         THEN IF ClassName(d[key]) = ClassName(c)
              THEN [map |-> d, raised |-> None]
              ELSE [map |-> d, raised |-> "AssertionError"]
         ELSE [map |-> [d EXCEPT ![key] = c], raised |-> None]

\* Lines 53-79 from candidate i on: the dict when the loops end or an
\* exception leaves them.
RECURSIVE scan(_, _, _)
scan(cands, i, d) ==
    IF i > Len(cands) THEN [map |-> d, raised |-> None]
    ELSE LET m == cands[i] IN
         IF m.load = "ImportError" THEN scan(cands, i + 1, d)
         ELSE IF m.load = "Error" THEN [map |-> d, raised |-> "Error"]
         ELSE LET r == register(d, m.cls) IN
              IF r.raised # None THEN r
              ELSE scan(cands, i + 1, r.map)

\* Mutant of get_potential_debuggers: the attribute is not consulted, every
\* call scans.
get_potential_debuggers_rescan(c, cands) ==
    LET r == scan(cands, 1, EmptyDict) IN
    [cached |-> [set |-> TRUE, map |-> r.map], scanned |-> TRUE,
     raised |-> r.raised, value |-> r.map]

\* _get_potential_debuggers() called with the function attribute being c:
\* the attribute afterwards, whether the tree was scanned, and the exception
\* raised or the dict returned.
get_potential_debuggers(c, cands) ==
    IF c.set
    THEN [cached |-> c, scanned |-> FALSE, raised |-> None, value |-> c.map]
    ELSE LET r == scan(cands, 1, EmptyDict) IN
         [cached |-> [set |-> TRUE, map |-> r.map], scanned |-> TRUE,
          raised |-> r.raised, value |-> r.map]

\* The record of a call made through `via` that ended as r: whether it
\* scanned, how the scan ended, the exception it raised or the dict it
\* returned.
observe(via, r) ==
    /\ Len(calls) < MaxCalls
    /\ scans' = IF r.scanned THEN scans + 1 ELSE scans
    /\ scan_raised' = IF r.scanned
                      THEN (IF r.raised = None THEN "no" ELSE r.raised)
                      ELSE scan_raised
    /\ calls' = Append(calls, [via |-> via, raised |-> r.raised,
                               value |-> IF r.raised = None THEN r.value
                                         ELSE EmptyDict])

\* A caller calls _get_potential_debuggers() directly.
call_get_potential_debuggers ==
    LET r == get_potential_debuggers(cached, candidates) IN
    /\ cached' = r.cached
    /\ observe("_get_potential_debuggers", r)
    /\ UNCHANGED <<cls_potential_debuggers, candidates>>

\* Debuggers.potential_debuggers() called with the class attribute being
\* clsattr and the function attribute being c: both attributes afterwards,
\* whether the tree was scanned, and the exception raised or the dict
\* returned.
potential_debuggers_call(clsattr, c, cands) ==
    IF clsattr.set
    THEN [cls |-> clsattr, cached |-> c, scanned |-> FALSE, raised |-> None,
          value |-> clsattr.map]
    ELSE LET r == get_potential_debuggers(c, cands) IN
         [cls |-> IF r.raised = None THEN [set |-> TRUE, map |-> r.value]
                  ELSE clsattr,
          cached |-> r.cached, scanned |-> r.scanned, raised |-> r.raised,
          value |-> r.value]

\* A caller calls Debuggers.potential_debuggers().
potential_debuggers ==
    LET r == potential_debuggers_call(cls_potential_debuggers, cached,
                                      candidates) IN
    /\ cached' = r.cached
    /\ cls_potential_debuggers' = r.cls
    /\ observe("potential_debuggers", r)
    /\ UNCHANGED candidates

\* The process at start: neither attribute exists, nothing was called.
Registry_init ==
    /\ cached = NoAttr
    /\ cls_potential_debuggers = NoAttr
    /\ scans = 0
    /\ scan_raised = None
    /\ calls = <<>>

--------------------------------------------------------------------------
(***************************************************************************)
(* Loading and listing backends                                            *)
(***************************************************************************)

\* How the constructor of the class registered under a key ends: with a
\* backend that is available, with one that reports a loading error, or by
\* raising.
ConstructionOutcomes == {"available", "unavailable", "throws"}

\* The keys callers ask load for: those a backend may report, and one that
\* no backend reports.
LoadKeys == Keys \cup {"gdb"}

\* sorted() of the keys.
SortedKeys == <<"lldb", "vs2015">>

NoBackend == [cls |-> None, is_available |-> FALSE]

\* Nothing was loaded or listed yet.
NoResult == [op |-> None, key |-> None, discovery |-> None,
             discovered |-> EmptyDict, raised |-> None,
             constructed |-> <<>>, backend |-> NoBackend, entries |-> <<>>]

\* Mutant of load_backend: a constructor that raises is caught and no
\* backend is handed back.
load_backend_swallow(m, key, con) ==
    IF key \notin DOMAIN m \/ m[key] = None
    THEN [raised |-> "KeyError", constructed |-> <<>>, backend |-> NoBackend]
    ELSE IF con[key] = "throws"
         THEN [raised |-> None, constructed |-> <<m[key]>>,
               backend |-> NoBackend]
    ELSE [raised |-> None, constructed |-> <<m[key]>>,
          backend |-> [cls |-> m[key],
                       is_available |-> con[key] = "available"]]

\* Line 257, the dict of potential debuggers being m: the subscript m[key],
\* then the call of the class found.
load_backend(m, key, con) ==
    IF key \notin DOMAIN m \/ m[key] = None
    THEN [raised |-> "KeyError", constructed |-> <<>>, backend |-> NoBackend]
    ELSE IF con[key] = "throws"
         THEN [raised |-> "ConstructionError", constructed |-> <<m[key]>>,
               backend |-> NoBackend]
    ELSE [raised |-> None, constructed |-> <<m[key]>>,
          backend |-> [cls |-> m[key],
                       is_available |-> con[key] = "available"]]

\* Lines 262-288 from the i-th sorted key on: the LoadedDebugger entries and
\* the classes constructed so far, until the keys end or a load raises.
RECURSIVE populate_debugger_cache(_, _, _, _, _)
populate_debugger_cache(m, con, i, debuggers, constructed) ==
    IF i > Len(SortedKeys)
    THEN [raised |-> None, entries |-> debuggers,
          constructed |-> constructed]
    ELSE LET key == SortedKeys[i] IN
         IF m[key] = None
         THEN populate_debugger_cache(m, con, i + 1, debuggers, constructed)
         ELSE LET r == load_backend(m, key, con) IN
              IF r.raised # None
              THEN [raised |-> r.raised, entries |-> debuggers,
                    constructed |-> constructed \o r.constructed]
              ELSE populate_debugger_cache(
                       m, con, i + 1,
                       Append(debuggers,
                              [option_name |-> key,
                               is_available |-> r.backend.is_available]),
                       constructed \o r.constructed)

\* Lines 292-344: the entries listed, or the exception that ends the listing
\* (max() of no entries raises ValueError).
list_result(m, con) ==
    LET p == populate_debugger_cache(m, con, 1, <<>>, <<>>) IN
    IF p.raised # None THEN p
    ELSE IF Len(p.entries) = 0
         THEN [raised |-> "ValueError", entries |-> <<>>,
               constructed |-> p.constructed]
    ELSE p

\* The attributes and counters after a call of potential_debuggers that
\* ended as d.
discovered(d) ==
    /\ cached' = d.cached
    /\ cls_potential_debuggers' = d.cls
    /\ scans' = IF d.scanned THEN scans + 1 ELSE scans
    /\ scan_raised' = IF d.scanned
                      THEN (IF d.raised = None THEN "no" ELSE d.raised)
                      ELSE scan_raised
    /\ UNCHANGED <<candidates, calls, construction>>

\* Debuggers(context).load(key)
load(key) ==
    LET d == potential_debuggers_call(cls_potential_debuggers, cached,
                                      candidates)
        r == load_backend(d.value, key, construction) IN
    /\ discovered(d)
    /\ last_result' =
           IF d.raised # None
           THEN [NoResult EXCEPT !.op = "load", !.key = key,
                                 !.discovery = d.raised,
                                 !.raised = d.raised]
           ELSE [op |-> "load", key |-> key, discovery |-> "returned",
                 discovered |-> d.value, raised |-> r.raised,
                 constructed |-> r.constructed, backend |-> r.backend,
                 entries |-> <<>>]

\* Debuggers(context).list()
list ==
    LET d == potential_debuggers_call(cls_potential_debuggers, cached,
                                      candidates)
        r == list_result(d.value, construction) IN
    /\ discovered(d)
    /\ last_result' =
           IF d.raised # None
           THEN [NoResult EXCEPT !.op = "list", !.discovery = d.raised,
                                 !.raised = d.raised]
           ELSE [op |-> "list", key |-> None, discovery |-> "returned",
                 discovered |-> d.value, raised |-> r.raised,
                 constructed |-> r.constructed, backend |-> NoBackend,
                 entries |-> r.entries]

\* No backend is loaded or listed.
Listing_idle ==
    /\ construction = [k \in Keys |-> "available"]
    /\ last_result = NoResult

--------------------------------------------------------------------------
(***************************************************************************)
(* Out-of-process run: get_debugger_steps and the child it spawns          *)
(***************************************************************************)

\* A DextIR object as a value.
Trace(version, exe, sp, bld, dbg, cmds, stps) ==
    [dexter_version |-> version, executable_path |-> exe,
     source_paths |-> sp, builder |-> bld, debugger |-> dbg,
     commands |-> cmds, steps |-> stps]

\* The parent's step_collection.
step_collection ==
    Trace(dexter_version, executable_path, source_paths, builder, debugger,
          commands, steps)

BlankTrace == Trace("", "", {}, None, None, NoCommands, <<>>)

\* What _get_command_infos returns when the parser succeeds: an ordered
\* mapping, empty when the sources hold no command.
EmptyCommands == [is_none |-> FALSE, groups |-> <<>>]
TwoGroupCommands ==
    [is_none |-> FALSE,
     groups |-> <<[type |-> "DexWatch", list |-> <<"b">>],
                  [type |-> "DexExpectStepKind", list |-> <<"a", "c">>]>>]
ParsedCommands == {EmptyCommands, SomeCommands, TwoGroupCommands}

\* The StepKind values in the order of the enumeration; 0 stands for a
\* step_kind that is not set.
StepKindNames == <<"FUNC", "FUNC_EXTERNAL", "FUNC_UNKNOWN", "SAME",
                   "FORWARD", "BACKWARD", "UNKNOWN">>
KindToJson(kind) ==
    IF kind = None THEN 0
    ELSE CHOOSE n \in 1..Len(StepKindNames) : StepKindNames[n] = kind
KindFromJson(n) == IF n = 0 THEN None ELSE StepKindNames[n]

\* A list of the elements of the set S.
RECURSIVE ListOf(_)
ListOf(S) ==
    IF S = {} THEN <<>>
    ELSE LET x == CHOOSE y \in S : TRUE IN <<x>> \o ListOf(S \ {x})

\* DextIR.as_json: the trace as a JSON document.
as_json(t) ==
    [version |-> t.dexter_version,
     executable |-> t.executable_path,
     sources |-> ListOf(t.source_paths),
     builder |-> t.builder,
     debugger |-> t.debugger,
     commands |-> [null |-> t.commands.is_none,
                   items |-> [i \in 1..Len(t.commands.groups) |->
                                 <<t.commands.groups[i].type,
                                   t.commands.groups[i].list>>]],
     steps |-> [i \in 1..Len(t.steps) |->
                   <<t.steps[i].current_function,
                     t.steps[i].current_location.path,
                     t.steps[i].current_location.lineno,
                     t.steps[i].current_location.column,
                     KindToJson(t.steps[i].step_kind)>>]]

\* importDextIR: the trace a JSON document describes.
importDextIR(doc) ==
    Trace(doc.version, doc.executable,
          {doc.sources[i] : i \in 1..Len(doc.sources)},
          doc.builder, doc.debugger,
          [is_none |-> doc.commands.null,
           groups |-> [i \in 1..Len(doc.commands.items) |->
                          [type |-> doc.commands.items[i][1],
                           list |-> doc.commands.items[i][2]]]],
          [i \in 1..Len(doc.steps) |->
              [current_function |-> doc.steps[i][1],
               current_location |-> [path |-> doc.steps[i][2],
                                     lineno |-> doc.steps[i][3],
                                     column |-> doc.steps[i][4]],
               step_kind |-> KindFromJson(doc.steps[i][5])]])

\* A temporary file that was not created; `valid` is whether its text is a
\* whole document, `source` the trace it was last written from.
NoFile == [exists |-> FALSE, open_by |-> {}, valid |-> FALSE,
           doc |-> as_json(BlankTrace), source |-> BlankTrace]

NoChild == [state |-> "none", at |-> None, code |-> 0,
            trace |-> BlankTrace, wrote |-> FALSE]

NoRaise == [exc |-> None, at |-> None]
NoReturn == [returned |-> FALSE, trace |-> BlankTrace]

\* The run ends with exception exc, raised at `at`.
fail(exc, at) ==
    /\ pc' = "failed"
    /\ raised' = [exc |-> exc, at |-> at]

\* Variant: a parse failure is noted and the run goes on with no command.
parse_commands_lenient ==
    /\ pc = "start"
    /\ \/ \E cmds \in ParsedCommands :
              commands' = cmds /\ UNCHANGED parse_error
       \/ parse_error' = TRUE /\ commands' = EmptyCommands
    /\ pc' = "create_json"
    /\ UNCHANGED <<dexter_version, executable_path, source_paths, builder,
                   debugger, steps, last_op, prev_op, rendered, raised,
                   dexter_py, json_file, pickle_file, tmp_file, child,
                   spawned, readbacks, result>>

\* Lines 199-207, the parser succeeding or raising CommandParseError.
parse_commands ==
    /\ pc = "start"
    /\ \/ /\ \E cmds \in ParsedCommands : commands' = cmds
          /\ pc' = "create_json"
          /\ UNCHANGED <<raised, parse_error>>
       \/ /\ parse_error' = TRUE
          /\ fail("DebuggerException", "parse_commands")
          /\ UNCHANGED commands
    /\ UNCHANGED <<dexter_version, executable_path, source_paths, builder,
                   debugger, steps, last_op, prev_op, rendered, dexter_py,
                   json_file, pickle_file, tmp_file, child, spawned,
                   readbacks, result>>

\* What an action of the parent leaves alone besides the files it names.
parent_frame ==
    UNCHANGED <<trace_vars, raised, parse_error, dexter_py, child, spawned,
                readbacks, result>>

\* Lines 209-210: NamedTemporaryFile(delete=False) creates and opens the file.
create_json ==
    /\ pc = "create_json"
    /\ json_file' = [NoFile EXCEPT !.exists = TRUE, !.open_by = {"parent"}]
    /\ pc' = "write_json"
    /\ parent_frame /\ UNCHANGED <<pickle_file, tmp_file>>

\* Variant: the trace is serialized as empty_debugger_steps built it, the
\* parsed commands left out.
write_json_before_parse ==
    /\ pc = "write_json"
    /\ json_file' =
           [json_file EXCEPT
                !.valid = TRUE,
                !.doc = as_json([step_collection EXCEPT
                                     !.commands = NoCommands]),
                !.source = [step_collection EXCEPT !.commands = NoCommands]]
    /\ pc' = "close_json"
    /\ parent_frame /\ UNCHANGED <<pickle_file, tmp_file>>

\* Line 211: fp.write(step_collection.as_json...)
write_json ==
    /\ pc = "write_json"
    /\ json_file' = [json_file EXCEPT !.valid = TRUE,
                                      !.doc = as_json(step_collection),
                                      !.source = step_collection]
    /\ pc' = "close_json"
    /\ parent_frame /\ UNCHANGED <<pickle_file, tmp_file>>

\* Variant: the file is created without delete=False, so closing removes it.
close_json_delete ==
    /\ pc = "close_json"
    /\ json_file' = NoFile
    /\ pc' = "create_pickle"
    /\ parent_frame /\ UNCHANGED <<pickle_file, tmp_file>>

\* Line 212 and the end of the with block: the file is closed and stays.
close_json ==
    /\ pc = "close_json"
    /\ json_file' = [json_file EXCEPT !.open_by = @ \ {"parent"}]
    /\ pc' = "create_pickle"
    /\ parent_frame /\ UNCHANGED <<pickle_file, tmp_file>>

\* Lines 214-216: the options file is created, opened and written.
create_pickle ==
    /\ pc = "create_pickle"
    /\ pickle_file' = [NoFile EXCEPT !.exists = TRUE, !.open_by = {"parent"},
                                     !.valid = TRUE]
    /\ pc' = "close_pickle"
    /\ parent_frame /\ UNCHANGED <<json_file, tmp_file>>

\* Line 217 and the end of the with block.
close_pickle ==
    /\ pc = "close_pickle"
    /\ pickle_file' = [pickle_file EXCEPT !.open_by = @ \ {"parent"}]
    /\ pc' = "resolve_entry"
    /\ parent_frame /\ UNCHANGED <<json_file, tmp_file>>

\* Lines 219-222: sys.argv[0] is a file, or the path under the root
\* directory is, or the assert fails.
resolve_entry ==
    /\ pc = "resolve_entry"
    /\ \/ /\ \E found \in {"argv0", "root_relative"} : dexter_py' = found
          /\ pc' = "create_tmp"
          /\ UNCHANGED raised
       \/ /\ fail("AssertionError", "resolve_entry")
          /\ UNCHANGED dexter_py
    /\ UNCHANGED <<trace_vars, parse_error, json_file, pickle_file, tmp_file,
                   child, spawned, readbacks, result>>

\* Line 224: NamedTemporaryFile() creates and opens the third file.
create_tmp ==
    /\ pc = "create_tmp"
    /\ tmp_file' = [NoFile EXCEPT !.exists = TRUE, !.open_by = {"parent"}]
    /\ pc' = "spawn"
    /\ parent_frame /\ UNCHANGED <<json_file, pickle_file>>

\* Line 233: subprocess.check_call starts the child, or fails to start it
\* (OSError); the with block of line 224 then ends and deletes its file.
spawn ==
    /\ pc = "spawn"
    /\ \/ /\ child' = [NoChild EXCEPT !.state = "running", !.at = "start"]
          /\ spawned' = spawned + 1
          /\ pc' = "await_child"
          /\ UNCHANGED <<raised, tmp_file>>
       \/ /\ fail("OSError", "spawn")
          /\ tmp_file' = NoFile
          /\ UNCHANGED <<child, spawned>>
    /\ UNCHANGED <<trace_vars, parse_error, dexter_py, json_file,
                   pickle_file, readbacks, result>>

\* Variant: subprocess.call, the exit code of the child is not looked at.
await_child_unchecked ==
    /\ pc = "await_child"
    /\ child.state = "exited"
    /\ tmp_file' = NoFile
    /\ pc' = "open_readback"
    /\ UNCHANGED <<trace_vars, raised, parse_error, dexter_py, json_file,
                   pickle_file, child, spawned, readbacks, result>>

\* Variant: subprocess.Popen, the parent goes on without waiting.
await_child_no_wait ==
    /\ pc = "await_child"
    /\ tmp_file' = NoFile
    /\ pc' = "open_readback"
    /\ UNCHANGED <<trace_vars, raised, parse_error, dexter_py, json_file,
                   pickle_file, child, spawned, readbacks, result>>

\* Lines 233-235 and the end of the with block of line 224: check_call
\* returns once the child has exited; the third file is deleted; an exit
\* code other than 0 raises DebuggerException.
await_child ==
    /\ pc = "await_child"
    /\ child.state = "exited"
    /\ tmp_file' = NoFile
    /\ IF child.code = 0
       THEN pc' = "open_readback" /\ UNCHANGED raised
       ELSE fail("DebuggerException", "await_child")
    /\ UNCHANGED <<trace_vars, parse_error, dexter_py, json_file,
                   pickle_file, child, spawned, readbacks, result>>

\* Line 237: open(json_path, 'r')
open_readback ==
    /\ pc = "open_readback"
    /\ json_file' = [json_file EXCEPT !.open_by = @ \cup {"parent"}]
    /\ readbacks' = readbacks + 1
    /\ pc' = "read_back"
    /\ UNCHANGED <<trace_vars, raised, parse_error, dexter_py, pickle_file,
                   tmp_file, child, spawned, result>>

\* Lines 238-240: the text is read and parsed, the file closed, the trace
\* returned; a text that is no whole document raises.
read_back ==
    /\ pc = "read_back"
    /\ json_file' = [json_file EXCEPT !.open_by = @ \ {"parent"}]
    /\ IF json_file.valid
       THEN /\ result' = [returned |-> TRUE,
                          trace |-> importDextIR(json_file.doc)]
            /\ pc' = "done"
            /\ UNCHANGED raised
       ELSE /\ fail("JSONDecodeError", "read_back")
            /\ UNCHANGED result
    /\ UNCHANGED <<trace_vars, parse_error, dexter_py, pickle_file, tmp_file,
                   child, spawned, readbacks>>

\* What an action of the child leaves alone besides the files it names.
child_frame ==
    UNCHANGED <<trace_vars, pc, raised, parse_error, dexter_py, tmp_file,
                spawned, readbacks, result>>

\* The child opens the two files it was given.
child_open_read ==
    /\ child.state = "running" /\ child.at = "start"
    /\ json_file' = [json_file EXCEPT !.open_by = @ \cup {"child"}]
    /\ pickle_file' = [pickle_file EXCEPT !.open_by = @ \cup {"child"}]
    /\ child' = [child EXCEPT !.at = "reading"]
    /\ child_frame

\* The child reads the envelope and the options and closes both files.
child_read ==
    /\ child.state = "running" /\ child.at = "reading"
    /\ json_file' = [json_file EXCEPT !.open_by = @ \ {"child"}]
    /\ pickle_file' = [pickle_file EXCEPT !.open_by = @ \ {"child"}]
    /\ child' = [child EXCEPT
                     !.at = "debugging",
                     !.trace = [importDextIR(json_file.doc) EXCEPT
                                    !.builder = "builder",
                                    !.debugger = "debugger"]]
    /\ child_frame

\* The child's debugger stops and the child appends the step to its trace.
child_new_step(step) ==
    /\ child.state = "running" /\ child.at = "debugging"
    /\ Len(child.trace.steps) < MaxChildSteps
    /\ child' = [child EXCEPT
                     !.trace.steps = new_step_steps(child.trace.source_paths,
                                                    child.trace.steps, step)]
    /\ child_frame /\ UNCHANGED <<json_file, pickle_file>>

\* The child opens the envelope file for writing, which empties it.
child_open_write ==
    /\ child.state = "running" /\ child.at = "debugging"
    /\ json_file' = [json_file EXCEPT !.open_by = @ \cup {"child"},
                                      !.valid = FALSE]
    /\ child' = [child EXCEPT !.at = "writing"]
    /\ child_frame /\ UNCHANGED pickle_file

\* The child writes its trace and closes the file.
child_write ==
    /\ child.state = "running" /\ child.at = "writing"
    /\ json_file' = [json_file EXCEPT !.open_by = @ \ {"child"},
                                      !.valid = TRUE,
                                      !.doc = as_json(child.trace),
                                      !.source = child.trace]
    /\ child' = [child EXCEPT !.at = "written", !.wrote = TRUE]
    /\ child_frame /\ UNCHANGED pickle_file

\* The child exits: with 0 when no file is half written, with another code
\* wherever it stands.  Its open files are closed.
child_exit(code) ==
    /\ child.state = "running"
    /\ code = 0 => child.at # "writing"
    /\ child' = [child EXCEPT !.state = "exited", !.code = code]
    /\ json_file' = [json_file EXCEPT !.open_by = @ \ {"child"}]
    /\ pickle_file' = [pickle_file EXCEPT !.open_by = @ \ {"child"}]
    /\ child_frame

ExitCodes == {0, 1}

\* The stops of the child's debugger: in or out of a function, in a file or
\* not, on either line.
ChildStepIR == {s \in StepIR : /\ s.current_function \in {None, "main"}
                               /\ s.current_location.column = 1}

\* No run: nothing parsed, no file, no child.
Coordinator_idle ==
    /\ pc = "idle"
    /\ raised = NoRaise
    /\ parse_error = FALSE
    /\ dexter_py = None
    /\ json_file = NoFile
    /\ pickle_file = NoFile
    /\ tmp_file = NoFile
    /\ child = NoChild
    /\ spawned = 0
    /\ readbacks = 0
    /\ result = NoReturn

\* get_debugger_steps is entered: line 199, empty_debugger_steps(context).
Coordinator_init ==
    /\ pc = "start"
    /\ raised = NoRaise
    /\ parse_error = FALSE
    /\ dexter_py = None
    /\ json_file = NoFile
    /\ pickle_file = NoFile
    /\ tmp_file = NoFile
    /\ child = NoChild
    /\ spawned = 0
    /\ readbacks = 0
    /\ result = NoReturn

--------------------------------------------------------------------------
(***************************************************************************)
(* Specifications                                                          *)
(***************************************************************************)

TraceInit ==
    /\ DextIR_init
    /\ Registry_init
    /\ candidates = <<>>
    /\ Listing_idle
    /\ Coordinator_idle

TraceNext ==
    \/ \E step \in StepIR :
           new_step(step)
               /\ UNCHANGED <<registry_vars, listing_vars,
                              coordinator_vars>>
    \/ clear_steps
           /\ UNCHANGED <<registry_vars, listing_vars, coordinator_vars>>

TraceSpec == TraceInit /\ [][TraceNext]_vars

\* Traces of up to MaxRenderSteps steps, rendered at any point.
RenderInit ==
    /\ DextIR_init
    /\ commands = NoCommands
    /\ Registry_init
    /\ candidates = <<>>
    /\ Listing_idle
    /\ Coordinator_idle

RenderNext ==
    \/ \E step \in RenderStepIR :
           new_step_within(step, MaxRenderSteps)
               /\ UNCHANGED <<registry_vars, listing_vars,
                              coordinator_vars>>
    \/ clear_steps
           /\ UNCHANGED <<registry_vars, listing_vars, coordinator_vars>>
    \/ render
           /\ UNCHANGED <<registry_vars, listing_vars, coordinator_vars>>

RenderSpec == RenderInit /\ [][RenderNext]_vars

RegistryInit ==
    /\ Registry_init
    /\ candidates \in SeqsUpTo(Candidate, MaxCandidates)
    /\ DextIR_init
    /\ source_paths = {}
    /\ commands = NoCommands
    /\ Listing_idle
    /\ Coordinator_idle

RegistryNext ==
    \/ call_get_potential_debuggers
           /\ UNCHANGED <<trace_vars, listing_vars, coordinator_vars>>
    \/ potential_debuggers
           /\ UNCHANGED <<trace_vars, listing_vars, coordinator_vars>>

\* Loading and listing backends, over every scanned tree and every way the
\* backends' constructors behave.
ListingInit ==
    /\ Registry_init
    /\ candidates \in SeqsUpTo(Candidate, MaxCandidates)
    /\ construction \in [Keys -> ConstructionOutcomes]
    /\ last_result = NoResult
    /\ DextIR_init
    /\ source_paths = {}
    /\ commands = NoCommands
    /\ Coordinator_idle

ListingNext ==
    \/ \E key \in LoadKeys :
           load(key) /\ UNCHANGED <<trace_vars, coordinator_vars>>
    \/ list /\ UNCHANGED <<trace_vars, coordinator_vars>>

ListingSpec == ListingInit /\ [][ListingNext]_vars

RegistrySpec == RegistryInit /\ [][RegistryNext]_vars

\* One run of get_debugger_steps, with the child it spawns.
CoordinatorInit ==
    /\ DextIR_init
    /\ commands = NoCommands
    /\ Registry_init
    /\ candidates = <<>>
    /\ Listing_idle
    /\ Coordinator_init

\* The rest of the program takes no part in a run.
elsewhere == UNCHANGED <<registry_vars, listing_vars>>

CoordinatorNext ==
    \/ parse_commands /\ elsewhere
    \/ create_json /\ elsewhere
    \/ write_json /\ elsewhere
    \/ close_json /\ elsewhere
    \/ create_pickle /\ elsewhere
    \/ close_pickle /\ elsewhere
    \/ resolve_entry /\ elsewhere
    \/ create_tmp /\ elsewhere
    \/ spawn /\ elsewhere
    \/ await_child /\ elsewhere
    \/ open_readback /\ elsewhere
    \/ read_back /\ elsewhere
    \/ child_open_read /\ elsewhere
    \/ child_read /\ elsewhere
    \/ \E step \in ChildStepIR : child_new_step(step) /\ elsewhere
    \/ child_open_write /\ elsewhere
    \/ child_write /\ elsewhere
    \/ \E code \in ExitCodes : child_exit(code) /\ elsewhere

CoordinatorSpec == CoordinatorInit /\ [][CoordinatorNext]_vars

Init ==
    /\ DextIR_init
    /\ Registry_init
    /\ candidates \in SeqsUpTo(Candidate, MaxCandidates)
    /\ construction \in [Keys -> ConstructionOutcomes]
    /\ last_result = NoResult
    /\ Coordinator_init

Next ==
    TraceNext \/ RenderNext \/ RegistryNext \/ ListingNext
        \/ CoordinatorNext

Spec == Init /\ [][Next]_vars

--------------------------------------------------------------------------
(***************************************************************************)
(* Properties of the step trace (checked under TraceSpec)                  *)
(***************************************************************************)

EntryKinds == {"FUNC", "FUNC_EXTERNAL", "FUNC_UNKNOWN"}

\* The function-entry rule, stated of stored step i.
IsEntryClassified(i) ==
    LET path == steps[i].current_location.path
        kind == steps[i].step_kind IN
    /\ kind \in EntryKinds
    /\ kind = "FUNC" <=> path \in source_paths
    /\ kind = "FUNC_UNKNOWN" <=> path = None

HasFunction(i) == steps[i].current_function # None

\* C1: every stored step whose function is absent has kind UNKNOWN, wherever
\* it stands in the trace and whatever its path and source_paths are.
C1_AbsentFunctionIsUnknown ==
    \A i \in 1..Len(steps) :
        ~HasFunction(i) => steps[i].step_kind = "UNKNOWN"

\* A step without function but with a path of source_paths, stored as
\* UNKNOWN first in the trace and again after a step that has a function.
C1_Witness ==
    /\ Len(steps) = 3
    /\ ~HasFunction(1) /\ steps[1].step_kind = "UNKNOWN"
    /\ steps[1].current_location.path \in source_paths
    /\ HasFunction(2)
    /\ ~HasFunction(3) /\ steps[3].step_kind = "UNKNOWN"
    /\ steps[3].current_location.path = None

\* C2: the first step of the trace, when it has a function, is FUNC iff its
\* path is in source_paths, FUNC_UNKNOWN iff its path is absent, and
\* FUNC_EXTERNAL otherwise.
C2_FirstStepIsFunctionEntry ==
    (Len(steps) >= 1 /\ HasFunction(1)) =>
        /\ IsEntryClassified(1)
        /\ (steps[1].current_location.path \notin source_paths \cup {None})
               => steps[1].step_kind = "FUNC_EXTERNAL"

\* A first step with a function and a path outside source_paths, stored as
\* FUNC_EXTERNAL.
C2_Witness ==
    /\ Len(steps) = 1
    /\ last_op = "new_step"
    /\ HasFunction(1)
    /\ steps[1].current_location.path = "file.c"
    /\ source_paths = {}
    /\ steps[1].step_kind = "FUNC_EXTERNAL"

\* C3: a step that follows a step of the same (present) function is SAME
\* when the two locations are equal, BACKWARD when the previous location is
\* greater, FORWARD when it is less, and never a function-entry kind.
C3_SameFunctionComparesLocations ==
    \A i \in 2..Len(steps) :
        (/\ HasFunction(i - 1)
         /\ steps[i - 1].current_function = steps[i].current_function) =>
            LET prev == steps[i - 1].current_location
                cur == steps[i].current_location
                kind == steps[i].step_kind IN
            /\ LocEq(prev, cur) => kind = "SAME"
            /\ LocGt(prev, cur) => kind = "BACKWARD"
            /\ LocLt(prev, cur) => kind = "FORWARD"
            /\ kind \notin EntryKinds

\* A trace of one function that stays, goes forward (by column only) and
\* comes back (by line).
C3_Witness ==
    /\ Len(steps) = 3
    /\ steps[1].current_function = "main"
    /\ steps[2].current_function = "main"
    /\ steps[3].current_function = "main"
    /\ steps[1].current_location = [path |-> "file.c", lineno |-> 11,
                                    column |-> 1]
    /\ steps[2].current_location = [path |-> "file.c", lineno |-> 11,
                                    column |-> 2]
    /\ steps[3].current_location = [path |-> "file.c", lineno |-> 10,
                                    column |-> 2]
    /\ steps[2].step_kind = "FORWARD"
    /\ steps[3].step_kind = "BACKWARD"
    /\ source_paths = {}

\* C4: a step with a function that follows a step of another (present)
\* function is classified by the function-entry rule, however the two
\* locations compare.
C4_ChangedFunctionIsFunctionEntry ==
    \A i \in 2..Len(steps) :
        (/\ HasFunction(i - 1) /\ HasFunction(i)
         /\ steps[i - 1].current_function # steps[i].current_function) =>
            /\ IsEntryClassified(i)
            /\ (steps[i].current_location.path \notin source_paths \cup {None})
                   => steps[i].step_kind = "FUNC_EXTERNAL"

\* A function change at an equal location and one at a smaller location,
\* both stored as function entries.
C4_Witness ==
    /\ Len(steps) = 3
    /\ steps[1].current_function = "main"
    /\ steps[2].current_function = "helper"
    /\ steps[3].current_function = "main"
    /\ LocEq(steps[1].current_location, steps[2].current_location)
    /\ LocGt(steps[2].current_location, steps[3].current_location)
    /\ steps[2].step_kind = "FUNC"
    /\ steps[3].step_kind = "FUNC_UNKNOWN"

\* C5: a step with a function that directly follows a step without one is
\* UNKNOWN, so a step without function and its successor are both UNKNOWN.
C5_AfterAbsentFunctionIsUnknown ==
    /\ \A i \in 2..Len(steps) :
           (~HasFunction(i - 1) /\ HasFunction(i))
               => steps[i].step_kind = "UNKNOWN"
    /\ \A i \in 1..(Len(steps) - 1) :
           ~HasFunction(i) => /\ steps[i].step_kind = "UNKNOWN"
                              /\ steps[i + 1].step_kind = "UNKNOWN"

\* A step of main in a source file, stored as UNKNOWN because it follows a
\* step without function, itself after a step of main.
C5_Witness ==
    /\ Len(steps) = 3
    /\ steps[1].current_function = "main"
    /\ ~HasFunction(2)
    /\ steps[3].current_function = "main"
    /\ steps[3].current_location.path \in source_paths
    /\ steps[2].step_kind = "UNKNOWN"
    /\ steps[3].step_kind = "UNKNOWN"

\* C6: every stored step carries a kind of the closed set StepKinds; none
\* is stored with step_kind still unset.
C6_StoredKindIsAssigned ==
    \A i \in 1..Len(steps) : steps[i].step_kind \in StepKinds

\* C7: an append extends the sequence by one element at its end and leaves
\* every step already stored, its kind included, as it was.
C7_AppendIsLeftToRightFold ==
    [][last_op' = "new_step" =>
           /\ Len(steps') = Len(steps) + 1
           /\ \A i \in 1..Len(steps) : steps'[i] = steps[i]]_vars

\* Three appends in a row; the first step, a function entry, is followed
\* by a step at the same place.
C7_Witness ==
    /\ Len(steps) = 3
    /\ last_op = "new_step" /\ prev_op = "new_step"
    /\ steps[1].step_kind = "FUNC"
    /\ steps[2].step_kind = "SAME"
    /\ steps[3].step_kind = "BACKWARD"

\* The kind a step gets when nothing precedes it.
IsFirstClassified(stps) ==
    LET path == stps[1].current_location.path
        kind == stps[1].step_kind IN
    IF stps[1].current_function = None THEN kind = "UNKNOWN"
    ELSE IF path \in source_paths THEN kind = "FUNC"
    ELSE IF path = None THEN kind = "FUNC_UNKNOWN"
    ELSE kind = "FUNC_EXTERNAL"

\* C8: clear_steps leaves no step and changes no other field of the trace,
\* and the step appended right after it is classified as a first step.
C8_ClearEmptiesStepsOnly ==
    [][/\ last_op' = "clear_steps" =>
              /\ Len(steps') = 0
              /\ UNCHANGED <<dexter_version, executable_path, source_paths,
                             builder, debugger, commands>>
       /\ (last_op = "clear_steps" /\ last_op' = "new_step") =>
              /\ Len(steps') = 1
              /\ IsFirstClassified(steps')]_vars

\* A trace with commands, cleared after an append, then given a step of a
\* source file, stored as FUNC.
C8_Witness ==
    /\ prev_op = "clear_steps" /\ last_op = "new_step"
    /\ commands = SomeCommands
    /\ Len(steps) = 1
    /\ steps[1].step_kind = "FUNC"

\* The trace that keeps of stps only the function and location of its last
\* step: no earlier step, no kind.
LastOnly(stps) ==
    IF Len(stps) = 0 THEN <<>>
    ELSE <<[stps[Len(stps)] EXCEPT !.step_kind = None]>>

\* C20: the kind of every stored step is the kind the same step gets after
\* a trace that holds nothing but the function and location of its
\* predecessor (or nothing, for the first step); and a step that is SAME,
\* FORWARD or BACKWARD is not the first and follows a step of the same,
\* present function.
C20_KindDependsOnPredecessorOnly ==
    \A i \in 1..Len(steps) :
        /\ steps[i].step_kind =
               new_step_kind(source_paths, LastOnly(SubSeq(steps, 1, i - 1)),
                             [steps[i] EXCEPT !.step_kind = None])
        /\ steps[i].step_kind \in {"SAME", "FORWARD", "BACKWARD"} =>
               /\ i > 1
               /\ HasFunction(i - 1)
               /\ steps[i - 1].current_function = steps[i].current_function

\* A step of main stored as UNKNOWN after a step without function, and a
\* further step of main at the same place stored as SAME: the history
\* before the predecessor plays no part.
C20_Witness ==
    /\ Len(steps) = 3
    /\ ~HasFunction(1)
    /\ steps[2].current_function = "main"
    /\ steps[2].step_kind = "UNKNOWN"
    /\ steps[3].current_function = "main"
    /\ steps[3].step_kind = "SAME"

--------------------------------------------------------------------------
(***************************************************************************)
(* Properties of the rendering (checked under RenderSpec)                  *)
(***************************************************************************)

\* The number of function-entry steps among the first i steps.
EntriesUpTo(i) ==
    Cardinality({j \in 1..i : steps[j].step_kind \in EntryKinds})

\* C18: rendering changes no field of the trace and no step; it yields one
\* line per step, in order; two consecutive lines have the same marker iff
\* the second step is no function entry; the marker of step i is the
\* (number of function entries up to i) modulo 4 entry of r, g, b, y; and
\* the count of the summary is the number of steps.
C18_RenderIsPureProjection ==
    [][last_op' = "render" =>
           LET n == Len(steps)
               lines == rendered'.lines IN
           /\ UNCHANGED <<dexter_version, executable_path, source_paths,
                          builder, debugger, commands, steps>>
           /\ Len(lines) = n
           /\ \A i \in 1..n : lines[i].step = steps[i]
           /\ \A i \in 2..n :
                  (lines[i].color = lines[i - 1].color)
                      <=> steps[i].step_kind \notin EntryKinds
           /\ \A i \in 1..n :
                  lines[i].color
                      = <<"r", "g", "b", "y">>[(EntriesUpTo(i) % 4) + 1]
           /\ rendered'.count = n]_vars

\* A rendered trace of five steps, four of them function entries, so that
\* the markers run through the whole cycle and start again at r.
C18_Witness ==
    /\ last_op = "render"
    /\ Len(steps) = 5
    /\ EntriesUpTo(5) = 4
    /\ steps[3].step_kind = "SAME"
    /\ rendered.count = 5
    /\ rendered.lines[1].color = "g"
    /\ rendered.lines[2].color = "b"
    /\ rendered.lines[3].color = "b"
    /\ rendered.lines[4].color = "y"
    /\ rendered.lines[5].color = "r"

--------------------------------------------------------------------------
(***************************************************************************)
(* Properties of the registry (checked under RegistrySpec)                 *)
(***************************************************************************)

\* C9: the candidates are scanned at most once, and any two calls that
\* return, through either entry point and in any order, return the same
\* mapping from keys to classes.
C9_DiscoveryIsMemoized ==
    /\ scans <= 1
    /\ \A i, j \in 1..Len(calls) :
           (calls[i].raised = None /\ calls[j].raised = None)
               => calls[i].value = calls[j].value

\* Three calls, the class method first, then the function, then the class
\* method again, over a tree with two backends: one scan, one mapping.
C9_Witness ==
    /\ Len(calls) = 3
    /\ calls[1].via = "potential_debuggers"
    /\ calls[2].via = "_get_potential_debuggers"
    /\ calls[3].via = "potential_debuggers"
    /\ \A i \in 1..3 : calls[i].raised = None
    /\ calls[3].value = [lldb |-> "LLDB", vs2015 |-> "VisualStudio2015"]
    /\ scans = 1

\* A candidate the scan registers: a DebuggerBase class, of a module that
\* loaded, that reports a key.
Registrable(m) ==
    /\ m.load = "ok"
    /\ IsDebuggerBase(m.cls)
    /\ OptionName(m.cls) # "NotImplementedError"

\* Candidates i and j report the same key.
SameKey(i, j) ==
    /\ i < j
    /\ Registrable(candidates[i]) /\ Registrable(candidates[j])
    /\ OptionName(candidates[i].cls) = OptionName(candidates[j].cls)

\* C10: once the tree was scanned: if two different classes reported the
\* same key the scan aborted; if every key was reported by one class only,
\* however often, and every module loaded, the scan ended normally with that
\* class registered under the key.
C10_CollisionAbortsScan ==
    LET idx == 1..Len(candidates) IN
    scans >= 1 =>
        /\ (\E i, j \in idx :
               SameKey(i, j) /\ candidates[i].cls # candidates[j].cls)
               => scan_raised \in {"AssertionError", "Error"}
        /\ (/\ \A i, j \in idx :
                  SameKey(i, j) => candidates[i].cls = candidates[j].cls
            /\ \A i \in idx : candidates[i].load # "Error")
               => /\ scan_raised = "no"
                  /\ \A i \in idx :
                         Registrable(candidates[i]) =>
                             cached.map[OptionName(candidates[i].cls)]
                                 = candidates[i].cls

\* C19: every call of discovery that returns, returns a mapping that holds
\* the key of every candidate that reports one, also after a call whose scan
\* was aborted.
C19_ReturnedMappingIsComplete ==
    \A c \in 1..Len(calls) :
        calls[c].raised = None =>
            \A i \in 1..Len(candidates) :
                Registrable(candidates[i]) =>
                    calls[c].value[OptionName(candidates[i].cls)] # None

--------------------------------------------------------------------------
(***************************************************************************)
(* Properties of loading and listing (checked under ListingSpec)           *)
(***************************************************************************)

\* The keys of the dict a load or list got from discovery.
DiscoveredKeys == {k \in Keys : last_result.discovered[k] # None}

\* C11: a listing over discovered backends of which one raises in its
\* constructor completes, with one entry per discovered key, in key order,
\* the entry of the raising backend marked unavailable.
C11_ListingNeverRaises ==
    (/\ last_result.op = "list"
     /\ last_result.discovery = "returned"
     /\ \E k \in DiscoveredKeys : construction[k] = "throws") =>
        /\ last_result.raised = None
        /\ {last_result.entries[i].option_name :
               i \in 1..Len(last_result.entries)} = DiscoveredKeys
        /\ \A i \in 1..Len(last_result.entries) :
               construction[last_result.entries[i].option_name] = "throws"
                   => ~last_result.entries[i].is_available

\* C12: a load whose discovery returned: with a key that is not discovered
\* it raises KeyError and constructs nothing; with a discovered key it
\* constructs the class registered under the key and nothing else, and
\* raises what the constructor raises.
C12_LoadConstructsRegisteredClass ==
    (last_result.op = "load" /\ last_result.discovery = "returned") =>
        IF last_result.key \notin DiscoveredKeys
        THEN /\ last_result.raised = "KeyError"
             /\ last_result.constructed = <<>>
        ELSE /\ last_result.constructed
                    = <<last_result.discovered[last_result.key]>>
             /\ IF construction[last_result.key] = "throws"
                THEN last_result.raised = "ConstructionError"
                ELSE /\ last_result.raised = None
                     /\ last_result.backend.cls
                            = last_result.discovered[last_result.key]

\* A load of "lldb", registered to LLDB next to a Visual Studio backend,
\* whose constructor raises: the load raises.
C12_Witness ==
    /\ last_result.op = "load"
    /\ last_result.key = "lldb"
    /\ last_result.discovered = [lldb |-> "LLDB",
                                 vs2015 |-> "VisualStudio2017"]
    /\ last_result.constructed = <<"LLDB">>
    /\ last_result.raised = "ConstructionError"

--------------------------------------------------------------------------
(***************************************************************************)
(* Properties of the out-of-process run                                    *)
(***************************************************************************)

Ended == pc \in {"done", "failed"}
ChildFailed == child.state = "exited" /\ child.code # 0
HarnessError(at) == [exc |-> "DebuggerException", at |-> at]

\* C13: a run spawns the child at most once; a trace is returned exactly
\* when the run has ended and that child exited with code 0; once the child
\* has exited with another code the envelope is never read back, no trace is
\* returned, and the run ends failed with DebuggerException.
C13_RunIsAtomic ==
    /\ spawned <= 1
    /\ result.returned <=> pc = "done"
    /\ result.returned => child.state = "exited" /\ child.code = 0
    /\ (Ended /\ child.state = "exited" /\ child.code = 0)
           => result.returned
    /\ ChildFailed => readbacks = 0 /\ ~result.returned
    /\ (ChildFailed /\ pc # "await_child")
           => pc = "failed" /\ raised = HarnessError("await_child")

\* A child that wrote a whole trace and then exited with code 1: the run
\* has failed.
C13_Witness ==
    /\ pc = "failed"
    /\ ChildFailed
    /\ child.wrote
    /\ Len(child.trace.steps) > 0
    /\ json_file.valid

\* C14: when the parser reported a failure the run has failed with
\* DebuggerException raised by the parsing step, no temporary file exists,
\* no child was spawned and no trace is returned.
C14_ParseFailureAbortsFirst ==
    parse_error =>
        /\ pc = "failed"
        /\ raised = HarnessError("parse_commands")
        /\ ~json_file.exists /\ ~pickle_file.exists /\ ~tmp_file.exists
        /\ spawned = 0 /\ child = NoChild
        /\ ~result.returned

C14_Witness == parse_error /\ pc = "failed" /\ raised.exc = "DebuggerException"

\* C15: no file is open in both processes at once; while the child runs the
\* parent is blocked in check_call and holds neither the envelope nor the
\* options file open; a child exists only once both files are written and
\* closed; the parent opens the envelope again only after the child exited.
C15_NoConcurrentAccess ==
    /\ Cardinality(json_file.open_by) <= 1
    /\ Cardinality(pickle_file.open_by) <= 1
    /\ child.state = "running"
           => /\ pc = "await_child"
              /\ "parent" \notin json_file.open_by \cup pickle_file.open_by
    /\ child.state # "none"
           => /\ pc \in {"await_child", "open_readback", "read_back",
                         "done", "failed"}
              /\ pickle_file.exists /\ pickle_file.valid
              /\ json_file.exists
    /\ (pc = "spawn" \/ (pc = "await_child" /\ child.at = "start"))
           => /\ json_file.valid /\ json_file.source = step_collection
              /\ json_file.open_by = {} /\ pickle_file.open_by = {}
    /\ pc \in {"open_readback", "read_back", "done"}
           => child.state = "exited"

\* The child holds the envelope open for writing while the parent waits.
C15_Witness ==
    /\ child.state = "running"
    /\ child.at = "writing"
    /\ json_file.open_by = {"child"}
    /\ pc = "await_child"

\* C16: from the moment the envelope, and then the options file, is written
\* it exists, whatever the end of the run (returned, entry point not found,
\* child not started, child failed); the third file exists only between its
\* creation for the spawn and the return of check_call, never at the end.
C16_TempFilesLifetime ==
    LET after_pickle == {"resolve_entry", "create_tmp", "spawn",
                         "await_child", "open_readback", "read_back", "done"}
        after_json == after_pickle \cup {"close_json", "create_pickle",
                                         "close_pickle"}
        failed_late == pc = "failed" /\ raised.at # "parse_commands"
    IN  /\ (pc \in after_json \/ failed_late) => json_file.exists
        /\ (pc \in after_pickle \/ failed_late) => pickle_file.exists
        /\ tmp_file.exists => pc \in {"spawn", "await_child"}
        /\ Ended => ~tmp_file.exists

\* The entry point is not found: the run has failed and both files are there.
C16_Witness ==
    /\ pc = "failed"
    /\ raised = [exc |-> "AssertionError", at |-> "resolve_entry"]
    /\ json_file.exists /\ json_file.valid
    /\ pickle_file.exists

\* Same number of steps, same kinds in the same order, same command groups.
SameStepsAndCommands(a, b) ==
    /\ Len(a.steps) = Len(b.steps)
    /\ \A i \in 1..Len(a.steps) : a.steps[i].step_kind = b.steps[i].step_kind
    /\ a.commands = b.commands

C17_UntouchedWitness ==
    /\ result.returned
    /\ ~child.wrote
    /\ commands = TwoGroupCommands
    /\ result.trace.commands = TwoGroupCommands
    /\ result.trace.steps = <<>>

====
